---- MODULE Spec2Model ----
(***************************************************************************)
(* Model of the scheduling and dispatch engine of letta-switchboard:       *)
(* the file store (src/app.py save_schedule / load_schedule / unlink), the *)
(* due evaluator (src/scheduler.py), the sweep check_and_execute_schedules *)
(* and the dispatch execute_schedule, whose instances run concurrently     *)
(* with each other, with the sweeps and with the users' requests and       *)
(* interleave at the granularity of one file operation.                    *)
(*                                                                         *)
(* Time is counted in ticks. A minute is TicksPerMin ticks, an hour        *)
(* MinPerHour minutes, a day HoursPerDay hours (a scaled-down calendar).   *)
(* The periodic trigger fires the sweep once per minute, on the tick of    *)
(* the minute boundary.                                                    *)
(***************************************************************************)
EXTENDS Integers, Sequences, FiniteSets, TLC

\* ---------------------------------------------------------------- bounds
TicksPerMin == 2
MinPerHour  == 2
HoursPerDay == 2
MaxTime     == 4
MaxSched    == 2
MaxDispatch == 2
MaxCalls    == 2

TicksPerHour == TicksPerMin * MinPerHour
TicksPerDay  == TicksPerHour * HoursPerDay

\* ---------------------------------------------------------------- values
\* The credentials Letta accepts, and the credentials a request may carry.
Tenants == {"k1", "k2"}
Credentials == Tenants \cup {"bad"}
Ids     == 1..MaxSched

\* Python's None for an optional timestamp is the empty sequence, a present
\* value t is <<t>>; `if x:` is x # <<>>.
None == <<>>
Some(t) == <<t>>

\* crypto_utils.get_api_key_hash: a fixed-length digest of the credential.
get_api_key_hash(api_key) ==
    CASE api_key = "k1" -> "h1"
      [] api_key = "k2" -> "h2"
      [] api_key = "bad" -> "h0"

\* Mutant: every credential passes.
validate_api_key_accepts_all(api_key) == TRUE

\* letta_executor.validate_api_key: True when Letta answers the listing made
\* with the credential, False on any exception.
validate_api_key(api_key) == api_key \in Tenants

\* The cron expressions a user may post: cron is an unvalidated string.
EveryMinute == "* * * * *"
Hourly      == "0 * * * *"
BadCron     == "not a cron"
CronInputs  == {EveryMinute, Hourly, BadCron}

\* The tzinfo of a posted timestamp: None (naive) or +01:00, as the offset in
\* hours; datetime.now(timezone.utc) carries +00:00.
TzInputs == {None, Some(1)}

\* ------------------------------------------------------------ timestamps
\* An ISO timestamp string is the pair <<wall-clock reading, offset>>, the
\* offset being None when the text carries none. dateutil's parser.parse
\* turns it into a datetime [wall, tz]; isoformat() turns a datetime back.
parse(s) == [wall |-> s[1], tz |-> s[2]]
isoformat(dt) == <<dt.wall, dt.tz>>

replace_tzinfo_utc(dt) == [dt EXCEPT !.tz = Some(0)]

\* The instant (UTC ticks) an aware datetime denotes: aware datetimes are
\* compared by instant.
Instant(dt) == dt.wall - dt.tz[1] * TicksPerHour

\* datetime.now(timezone.utc) and datetime.utcnow().isoformat()
now_utc(t) == [wall |-> t, tz |-> Some(0)]
utcnow(t) == [wall |-> t, tz |-> None]

\* strftime("%Y-%m-%d") and strftime("%H"): fields of the wall-clock reading,
\* in the datetime's own offset.
strftime_date(dt) == dt.wall \div TicksPerDay
strftime_hour(dt) == (dt.wall \div TicksPerHour) % HoursPerDay

\* --------------------------------------------------------- due evaluator
croniter_valid(cron) == cron \in {EveryMinute, Hourly}

CronPeriod(cron) == IF cron = EveryMinute THEN TicksPerMin ELSE TicksPerHour

\* croniter(cron, start).get_next(): the first firing strictly after start.
croniter_get_next(cron, start) ==
    [wall |-> ((start.wall \div CronPeriod(cron)) + 1) * CronPeriod(cron),
     tz   |-> start.tz]

DictGet(d, key, default) == IF key \in DOMAIN d THEN d[key] ELSE default

\* scheduler.is_recurring_schedule_due raises when croniter rejects the cron.
is_recurring_schedule_due_raises(schedule_dict) ==
    ~croniter_valid(schedule_dict.cron)

\* Mutant: the boundary itself is not due (> for >=).
is_recurring_schedule_due_strict(schedule_dict, current_time) ==
    LET last_run == DictGet(schedule_dict, "last_run", None)
        parsed == IF last_run # None THEN parse(last_run)
                  ELSE parse(schedule_dict.created_at)
        last_run_dt == IF parsed.tz = None THEN replace_tzinfo_utc(parsed) ELSE parsed
        next_run == croniter_get_next(schedule_dict.cron, last_run_dt)
    IN  Instant(current_time) > Instant(next_run)

\* Mutant: the anchor is created_at whether or not the schedule has run.
is_recurring_schedule_due_ignores_last_run(schedule_dict, current_time) ==
    LET parsed == parse(schedule_dict.created_at)
        last_run_dt == IF parsed.tz = None THEN replace_tzinfo_utc(parsed) ELSE parsed
        next_run == croniter_get_next(schedule_dict.cron, last_run_dt)
    IN  Instant(current_time) >= Instant(next_run)

is_recurring_schedule_due(schedule_dict, current_time) ==
    LET last_run == DictGet(schedule_dict, "last_run", None)
        parsed == IF last_run # None THEN parse(last_run)
                  ELSE parse(schedule_dict.created_at)
        last_run_dt == IF parsed.tz = None THEN replace_tzinfo_utc(parsed) ELSE parsed
        cur == IF current_time.tz = None THEN replace_tzinfo_utc(current_time)
               ELSE current_time
        next0 == croniter_get_next(schedule_dict.cron, last_run_dt)
        next_run == IF next0.tz = None THEN replace_tzinfo_utc(next0) ELSE next0
    IN  Instant(cur) >= Instant(next_run)

\* Mutant: execute_at itself is not due (> for >=).
is_onetime_schedule_due_strict(schedule_dict, current_time) ==
    LET parsed == parse(schedule_dict.execute_at)
        execute_at == IF parsed.tz = None THEN replace_tzinfo_utc(parsed) ELSE parsed
    IN  Instant(current_time) > Instant(execute_at)

\* Mutant: only the executed flag is looked at.
is_onetime_schedule_due_unchecked(schedule_dict, current_time) ==
    ~DictGet(schedule_dict, "executed", FALSE)

is_onetime_schedule_due(schedule_dict, current_time) ==
    IF DictGet(schedule_dict, "executed", FALSE) THEN FALSE
    ELSE
      LET parsed == parse(schedule_dict.execute_at)
          execute_at == IF parsed.tz = None THEN replace_tzinfo_utc(parsed) ELSE parsed
          cur == IF current_time.tz = None THEN replace_tzinfo_utc(current_time)
                 ELSE current_time
      IN  Instant(cur) >= Instant(execute_at)

\* ------------------------------------------------------------------ store
\* crypto_utils.encrypt_json / decrypt_json: a blob sealed under a key opens
\* only under the same key. Every process of a deployment reads the key from
\* the same environment variable.
EncryptionKey == "key-A"
encrypt_json(data, encryption_key) == [sealed_with |-> encryption_key, json |-> data]
decrypt_json_raises(encrypted_data, encryption_key) ==
    encrypted_data.sealed_with # encryption_key
decrypt_json(encrypted_data, encryption_key) == encrypted_data.json

\* schedules/recurring/<digest>/<id>.json
get_recurring_schedule_path(api_key, schedule_id) ==
    <<get_api_key_hash(api_key), schedule_id>>

\* schedules/one-time/<date>/<hour>/<digest>/<id>.json
get_onetime_schedule_path(api_key, execute_at, schedule_id) ==
    LET dt == parse(execute_at)
    IN  <<strftime_date(dt), strftime_hour(dt), get_api_key_hash(api_key), schedule_id>>

\* results/<digest>/<id>.json
ResultPath(api_key, schedule_id) == <<get_api_key_hash(api_key), schedule_id>>

\* Mutant: the write replaces the whole tree by the one file.
WriteFile_truncating(files, path, blob) == [p \in {path} |-> blob]

\* open(path, "wb").write(blob): create or overwrite.
WriteFile(files, path, blob) ==
    [p \in DOMAIN files \cup {path} |-> IF p = path THEN blob ELSE files[p]]

\* Mutant: unlink(missing_ok=True), a missing file is no error.
unlink_raises_missing_ok(files, path, io_fault) == io_fault

\* Mutant: the file stays.
unlink_keeps(files, path) == files

\* Path(path).unlink(): raises FileNotFoundError when the file is missing, or
\* an OSError when the volume fails (io_fault); otherwise removes the file.
unlink_raises(files, path, io_fault) == io_fault \/ path \notin DOMAIN files
unlink(files, path) == [p \in DOMAIN files \ {path} |-> files[p]]

\* Path(file_path).parent.mkdir(parents=True, exist_ok=True)
mkdir_recurring_parents(d, path) == [d EXCEPT !.rec = @ \cup {path[1]}]
mkdir_onetime_parents(d, path) ==
    [d EXCEPT !.date = @ \cup {path[1]},
              !.hour = @ \cup {<<path[1], path[2]>>},
              !.user = @ \cup {<<path[1], path[2], path[3]>>}]
mkdir_results(d, api_key) == [d EXCEPT !.res = @ \cup {get_api_key_hash(api_key)}]

VARIABLES
    now,              \* the clock, in ticks
    swept,            \* the trigger has fired the sweep of the current minute
    nextId,           \* uuid4: every created schedule gets a fresh id
    recurring_files,  \* path -> sealed blob, under schedules/recurring
    onetime_files,    \* path -> sealed blob, under schedules/one-time
    result_files,     \* path -> sealed blob, under results
    dirs,             \* the directories that exist
    dispatches,       \* the spawned execute_schedule calls and their position
    unswept,          \* history: ids created since the last sweep ran
    calls             \* history: the outcomes of requests and store calls,
                      \* kept while calls.on

vars == <<now, swept, nextId, recurring_files, onetime_files, result_files,
          dirs, dispatches, unswept, calls>>

EmptyMap == [p \in {} |-> 0]

Init ==
    /\ now = 0
    /\ swept = FALSE
    /\ nextId = 1
    /\ recurring_files = EmptyMap
    /\ onetime_files = EmptyMap
    /\ result_files = EmptyMap
    /\ dirs = [rec |-> {}, date |-> {}, hour |-> {}, user |-> {}, res |-> {}]
    /\ dispatches = {}
    /\ unswept = {}
    /\ calls = [on |-> FALSE, log |-> <<>>]

\* The history takes one more entry, when it is kept.
CanLog == calls.on => Len(calls.log) < MaxCalls
Logged(entry) ==
    calls' = IF calls.on THEN [calls EXCEPT !.log = Append(@, entry)] ELSE calls

\* load_schedule: None when the file is missing; decrypt_json's exception for
\* a blob that does not open is not caught here.
load_schedule_found(files, path) == path \in DOMAIN files
load_schedule_raises(files, path) ==
    path \in DOMAIN files /\ decrypt_json_raises(files[path], EncryptionKey)
load_schedule(files, path) == decrypt_json(files[path], EncryptionKey)

\* Mutant: no try/except around the read; what the file holds is taken.
Readable_unguarded(files) == DOMAIN files

\* The blobs of a tree that open: the list_* helpers log and skip the others.
Readable(files) ==
    {p \in DOMAIN files : ~decrypt_json_raises(files[p], EncryptionKey)}

\* Mutant: open(file_path, "xb"): an existing file is left as it is.
save_schedule_if_absent(files, file_path, schedule_data) ==
    IF file_path \in DOMAIN files THEN files
    ELSE WriteFile(files, file_path, encrypt_json(schedule_data, EncryptionKey))

\* save_schedule(file_path, schedule_data): the record sealed under the
\* process's key, written over whatever the path holds.
save_schedule(files, file_path, schedule_data) ==
    WriteFile(files, file_path, encrypt_json(schedule_data, EncryptionKey))

\* ------------------------------------------------------------ API layer
\* Every handler validates the credential first and answers 401 before it
\* touches the store.
Entry(op, api_key, status) == [op |-> op, api_key |-> api_key, status |-> status]

\* models.RecurringSchedule / models.OneTimeSchedule, dumped to a dict: the
\* posted fields, the credential of the Authorization header, a fresh id and
\* created_at = datetime.utcnow().
RecurringSchedule(api_key, cron) ==
    [id |-> nextId, api_key |-> api_key, cron |-> cron,
     created_at |-> isoformat(utcnow(now)), last_run |-> None]

OneTimeSchedule(api_key, execute_at) ==
    [id |-> nextId, api_key |-> api_key, execute_at |-> execute_at,
     created_at |-> isoformat(utcnow(now))]

\* Mutant: the response carries the record as it is stored.
pop_api_key_keeps(schedule) == schedule

\* The schedule as a response carries it: schedule.pop("api_key").
pop_api_key(schedule) == [f \in DOMAIN schedule \ {"api_key"} |-> schedule[f]]

\* POST /schedules/recurring
create_recurring_schedule_status(api_key) ==
    IF ~validate_api_key(api_key) THEN 401 ELSE 201

create_recurring_schedule(api_key, cron) ==
    /\ CanLog
    /\ Logged(Entry("POST /schedules/recurring", api_key,
                    create_recurring_schedule_status(api_key)))
    /\ IF create_recurring_schedule_status(api_key) = 401
       THEN UNCHANGED <<nextId, recurring_files, dirs, unswept>>
       ELSE /\ nextId <= MaxSched
            /\ LET schedule_dict == RecurringSchedule(api_key, cron)
                   file_path == get_recurring_schedule_path(api_key, nextId)
               IN  /\ recurring_files' = save_schedule(recurring_files, file_path,
                                                       schedule_dict)
                   /\ dirs' = mkdir_recurring_parents(dirs, file_path)
            /\ unswept' = unswept \cup {nextId}
            /\ nextId' = nextId + 1
    /\ UNCHANGED <<now, swept, onetime_files, result_files, dispatches>>

\* The body of the 201: response_dict = schedule_dict.copy() less api_key.
create_recurring_schedule_body(api_key, cron) ==
    pop_api_key(RecurringSchedule(api_key, cron))

\* POST /schedules/one-time
create_onetime_schedule_status(api_key) ==
    IF ~validate_api_key(api_key) THEN 401 ELSE 201

create_onetime_schedule(api_key, execute_at) ==
    /\ CanLog
    /\ Logged(Entry("POST /schedules/one-time", api_key,
                    create_onetime_schedule_status(api_key)))
    /\ IF create_onetime_schedule_status(api_key) = 401
       THEN UNCHANGED <<nextId, onetime_files, dirs, unswept>>
       ELSE /\ nextId <= MaxSched
            /\ LET schedule_dict == OneTimeSchedule(api_key, execute_at)
                   file_path == get_onetime_schedule_path(api_key, execute_at, nextId)
               IN  /\ onetime_files' = save_schedule(onetime_files, file_path,
                                                     schedule_dict)
                   /\ dirs' = mkdir_onetime_parents(dirs, file_path)
            /\ unswept' = unswept \cup {nextId}
            /\ nextId' = nextId + 1
    /\ UNCHANGED <<now, swept, recurring_files, result_files, dispatches>>

create_onetime_schedule_body(api_key, execute_at) ==
    pop_api_key(OneTimeSchedule(api_key, execute_at))

\* Mutant: the directory of every credential is listed.
list_recurring_schedules_for_user_all(api_key) ==
    {load_schedule(recurring_files, p) : p \in Readable(recurring_files)}

\* list_recurring_schedules_for_user: the readable *.json of the credential's
\* directory schedules/recurring/<digest>.
list_recurring_schedules_for_user(api_key) ==
    {load_schedule(recurring_files, p) : p \in
        {q \in Readable(recurring_files) :
            q[1] = get_api_key_hash(api_key) /\ q[1] \in dirs.rec}}

\* list_onetime_schedules_for_user: the readable *.json of the directory
\* <digest> of every date/hour bucket.
list_onetime_schedules_for_user(api_key) ==
    {load_schedule(onetime_files, p) : p \in
        {q \in Readable(onetime_files) :
            q[3] = get_api_key_hash(api_key) /\ <<q[1], q[2], q[3]>> \in dirs.user}}

\* A request that only reads: the store stays, the answer is logged.
Answered(entry) ==
    /\ CanLog
    /\ Logged(entry)
    /\ UNCHANGED <<now, swept, nextId, recurring_files, onetime_files,
                   result_files, dirs, dispatches, unswept>>

\* GET /schedules/recurring and GET /schedules/one-time
list_recurring_schedules_body(api_key) ==
    {pop_api_key(s) : s \in list_recurring_schedules_for_user(api_key)}
list_recurring_schedules(api_key) ==
    Answered(Entry("GET /schedules/recurring", api_key,
                   IF ~validate_api_key(api_key) THEN 401 ELSE 200))

list_onetime_schedules_body(api_key) ==
    {pop_api_key(s) : s \in list_onetime_schedules_for_user(api_key)}
list_onetime_schedules(api_key) ==
    Answered(Entry("GET /schedules/one-time", api_key,
                   IF ~validate_api_key(api_key) THEN 401 ELSE 200))

\* Mutant: unlink(missing_ok=True); return True.
delete_schedule_returns_always(files, path) == TRUE

\* delete_schedule(file_path): True when the file was there, False when
\* unlink raised FileNotFoundError.
delete_schedule_returns(files, path) == path \in DOMAIN files
delete_schedule(files, path) == IF path \in DOMAIN files THEN unlink(files, path) ELSE files

\* GET and DELETE /schedules/recurring/{schedule_id}: 404 when load_schedule
\* finds no file, 500 when it raises, 403 when the record carries another
\* credential.
recurring_schedule_status(api_key, schedule_id) ==
    LET file_path == get_recurring_schedule_path(api_key, schedule_id)
    IN  IF ~validate_api_key(api_key) THEN 401
        ELSE IF ~load_schedule_found(recurring_files, file_path) THEN 404
        ELSE IF load_schedule_raises(recurring_files, file_path) THEN 500
        ELSE IF load_schedule(recurring_files, file_path).api_key # api_key THEN 403
        ELSE 200

\* The body of the 200: schedule_copy less api_key.
get_recurring_schedule_body(api_key, schedule_id) ==
    pop_api_key(load_schedule(recurring_files,
                              get_recurring_schedule_path(api_key, schedule_id)))

get_recurring_schedule(api_key, schedule_id) ==
    Answered(Entry("GET /schedules/recurring/{schedule_id}", api_key,
                   recurring_schedule_status(api_key, schedule_id)))

delete_recurring_schedule(api_key, schedule_id) ==
    LET file_path == get_recurring_schedule_path(api_key, schedule_id)
        status == recurring_schedule_status(api_key, schedule_id)
    IN  /\ CanLog
        /\ Logged(Entry("DELETE /schedules/recurring/{schedule_id}", api_key, status))
        /\ recurring_files' = IF status = 200
                              THEN delete_schedule(recurring_files, file_path)
                              ELSE recurring_files
        /\ UNCHANGED <<now, swept, nextId, onetime_files, result_files, dirs,
                       dispatches, unswept>>

\* find_onetime_schedule_for_user: every bucket directory is searched for
\* <digest>/<id>.json; a blob that does not open is skipped.
find_onetime_schedule_for_user(api_key, schedule_id) ==
    {p \in DOMAIN onetime_files :
        /\ p[3] = get_api_key_hash(api_key)
        /\ p[4] = schedule_id
        /\ ~decrypt_json_raises(onetime_files[p], EncryptionKey)}

\* GET and DELETE /schedules/one-time/{schedule_id}
onetime_schedule_status(api_key, schedule_id) ==
    IF ~validate_api_key(api_key) THEN 401
    ELSE IF find_onetime_schedule_for_user(api_key, schedule_id) = {} THEN 404
    ELSE IF \E p \in find_onetime_schedule_for_user(api_key, schedule_id) :
               load_schedule(onetime_files, p).api_key # api_key THEN 403
    ELSE 200

\* The bodies the 200 may carry: the record found, less api_key.
get_onetime_schedule_body(api_key, schedule_id) ==
    {pop_api_key(load_schedule(onetime_files, p)) :
        p \in find_onetime_schedule_for_user(api_key, schedule_id)}

get_onetime_schedule(api_key, schedule_id) ==
    Answered(Entry("GET /schedules/one-time/{schedule_id}", api_key,
                   onetime_schedule_status(api_key, schedule_id)))

delete_onetime_schedule(api_key, schedule_id) ==
    LET status == onetime_schedule_status(api_key, schedule_id)
    IN  /\ CanLog
        /\ Logged(Entry("DELETE /schedules/one-time/{schedule_id}", api_key, status))
        /\ IF status = 200
           THEN \E file_path \in find_onetime_schedule_for_user(api_key, schedule_id) :
                    onetime_files' = delete_schedule(onetime_files, file_path)
           ELSE UNCHANGED onetime_files
        /\ UNCHANGED <<now, swept, nextId, recurring_files, result_files, dirs,
                       dispatches, unswept>>

\* GET /results: the readable results of the credential's directory.
list_execution_results(api_key) ==
    Answered(Entry("GET /results", api_key,
                   IF ~validate_api_key(api_key) THEN 401 ELSE 200))

\* GET /results/{schedule_id}: 404 when the file is missing, 500 when it does
\* not open.
get_execution_result_status(api_key, schedule_id) ==
    LET result_file == <<get_api_key_hash(api_key), schedule_id>>
    IN  IF ~validate_api_key(api_key) THEN 401
        ELSE IF result_file \notin DOMAIN result_files THEN 404
        ELSE IF decrypt_json_raises(result_files[result_file], EncryptionKey) THEN 500
        ELSE 200

get_execution_result(api_key, schedule_id) ==
    Answered(Entry("GET /results/{schedule_id}", api_key,
                   get_execution_result_status(api_key, schedule_id)))

\* ---------------------------------------------------------------- sweep
\* list_all_recurring_schedules: every user directory, every *.json in it.
list_all_recurring_schedules ==
    {p \in Readable(recurring_files) : p[1] \in dirs.rec}

\* Mutant: every bucket is scanned.
list_onetime_schedules_for_time_every_bucket(date_str, hour_str) ==
    Readable(onetime_files)

\* list_onetime_schedules_for_time(date_str, hour_str): the one bucket.
list_onetime_schedules_for_time(date_str, hour_str) ==
    {p \in Readable(onetime_files) : p[1] = date_str /\ p[2] = hour_str}

\* Mutant: one level per pass; a directory is removed only if it was already
\* empty when the pass began.
cleanup_empty_directories_one_level(d) ==
    LET user == {u \in d.user : \E p \in DOMAIN onetime_files :
                                    <<p[1], p[2], p[3]>> = u}
        hour == {h \in d.hour : \E u \in d.user : <<u[1], u[2]>> = h}
        date == {dd \in d.date : \E h \in d.hour : h[1] = dd}
        rec  == {r \in d.rec : \E p \in DOMAIN recurring_files : p[1] = r}
    IN  [d EXCEPT !.user = user, !.hour = hour, !.date = date, !.rec = rec]

\* Mutant: the tenant directories of consumed buckets go whether or not they
\* still hold a record (rmtree of every bucket but the current one).
cleanup_empty_directories_prunes_old(d) ==
    LET cur == <<strftime_date(now_utc(now)), strftime_hour(now_utc(now))>>
        user == {u \in d.user : <<u[1], u[2]>> = cur}
        hour == {h \in d.hour : \E u \in user : <<u[1], u[2]>> = h}
        date == {dd \in d.date : \E h \in hour : h[1] = dd}
        rec  == {r \in d.rec : \E p \in DOMAIN recurring_files : p[1] = r}
    IN  [d EXCEPT !.user = user, !.hour = hour, !.date = date, !.rec = rec]

\* cleanup_empty_directories: empty user directories go first, then the hour
\* directory they leave empty, then the date directory; then the empty user
\* directories of the recurring tree. The results tree is not visited.
cleanup_empty_directories(d) ==
    LET user == {u \in d.user : \E p \in DOMAIN onetime_files :
                                    <<p[1], p[2], p[3]>> = u}
        hour == {h \in d.hour : \E u \in user : <<u[1], u[2]>> = h}
        date == {dd \in d.date : \E h \in hour : h[1] = dd}
        rec  == {r \in d.rec : \E p \in DOMAIN recurring_files : p[1] = r}
    IN  [d EXCEPT !.user = user, !.hour = hour, !.date = date, !.rec = rec]

\* The orders in which iterdir()/glob() may yield a set of files.
Orders(S) ==
    {o \in [1..Cardinality(S) -> S] : \A i, j \in DOMAIN o : o[i] = o[j] => i = j}

\* execute_schedule.spawn(...): a new dispatch with the arguments the sweep
\* copies from the listed record.
SpawnRecurring(schedule) ==
    [at |-> now, schedule_id |-> schedule.id, api_key |-> schedule.api_key,
     schedule_type |-> "recurring", execute_at |-> None,
     pc |-> "start", schedule |-> None, result |-> None, outcome |-> "",
     io_error |-> FALSE]

SpawnOneTime(schedule) ==
    [at |-> now, schedule_id |-> schedule.id, api_key |-> schedule.api_key,
     schedule_type |-> "one-time", execute_at |-> schedule.execute_at,
     pc |-> "start", schedule |-> None, result |-> None, outcome |-> "",
     io_error |-> FALSE]

\* The index of the first listed schedule whose due-check raises; one past
\* the end when none does.
FirstRaising(order) ==
    LET bad == {i \in DOMAIN order :
                  is_recurring_schedule_due_raises(load_schedule(recurring_files, order[i]))}
    IN  IF bad = {} THEN Len(order) + 1
        ELSE CHOOSE i \in bad : \A j \in bad : i <= j

\* Mutant: the sweep awaits the calls it spawns; while one of them is in
\* flight the sweep has not ended and the next one does not run.
check_and_execute_schedules_awaits(order) ==
    /\ UNCHANGED calls
    /\ now % TicksPerMin = 0
    /\ ~swept
    /\ \A d \in dispatches : d.pc = "done"
    /\ order \in Orders(list_all_recurring_schedules)
    /\ LET current_time == now_utc(now)
           stop == FirstRaising(order)
           aborted == stop <= Len(order)
           recurring_due ==
               {load_schedule(recurring_files, order[i]) : i \in
                   {j \in 1..(stop - 1) :
                       is_recurring_schedule_due(
                           load_schedule(recurring_files, order[j]), current_time)}}
           date_str == strftime_date(current_time)
           hour_str == strftime_hour(current_time)
           onetime_due ==
               {load_schedule(onetime_files, p) : p \in
                   {q \in list_onetime_schedules_for_time(date_str, hour_str) :
                       is_onetime_schedule_due(
                           load_schedule(onetime_files, q), current_time)}}
           spawned == {SpawnRecurring(s) : s \in recurring_due}
                      \cup (IF aborted THEN {}
                            ELSE {SpawnOneTime(s) : s \in onetime_due})
       IN  /\ Cardinality(dispatches \cup spawned) <= MaxDispatch
           /\ dispatches' = dispatches \cup spawned
           /\ dirs' = IF aborted THEN dirs ELSE cleanup_empty_directories(dirs)
    /\ swept' = TRUE
    /\ unswept' = {}
    /\ UNCHANGED <<now, nextId, recurring_files, onetime_files, result_files>>

\* check_and_execute_schedules, run by the trigger at the minute boundary.
\* The loop over the recurring schedules has no handler around the due-check:
\* the first one that raises ends the call, before the one-time loop and
\* before the cleanup.
check_and_execute_schedules(order) ==
    /\ UNCHANGED calls
    /\ now % TicksPerMin = 0
    /\ ~swept
    /\ order \in Orders(list_all_recurring_schedules)
    /\ LET current_time == now_utc(now)
           stop == FirstRaising(order)
           aborted == stop <= Len(order)
           recurring_due ==
               {load_schedule(recurring_files, order[i]) : i \in
                   {j \in 1..(stop - 1) :
                       is_recurring_schedule_due(
                           load_schedule(recurring_files, order[j]), current_time)}}
           date_str == strftime_date(current_time)
           hour_str == strftime_hour(current_time)
           onetime_due ==
               {load_schedule(onetime_files, p) : p \in
                   {q \in list_onetime_schedules_for_time(date_str, hour_str) :
                       is_onetime_schedule_due(
                           load_schedule(onetime_files, q), current_time)}}
           spawned == {SpawnRecurring(s) : s \in recurring_due}
                      \cup (IF aborted THEN {}
                            ELSE {SpawnOneTime(s) : s \in onetime_due})
       IN  /\ Cardinality(dispatches \cup spawned) <= MaxDispatch
           /\ dispatches' = dispatches \cup spawned
           /\ dirs' = IF aborted THEN dirs ELSE cleanup_empty_directories(dirs)
    /\ swept' = TRUE
    /\ unswept' = {}
    /\ UNCHANGED <<now, nextId, recurring_files, onetime_files, result_files>>

\* Time passes; the trigger has fired before the minute's first tick is over.
Tick ==
    /\ UNCHANGED calls
    /\ now < MaxTime
    /\ (now % TicksPerMin = 0) => swept
    /\ now' = now + 1
    /\ swept' = FALSE
    /\ UNCHANGED <<nextId, recurring_files, onetime_files, result_files, dirs,
                   dispatches, unswept>>

\* ------------------------------------------------------------- dispatch
\* letta_executor.execute_letta_message returns {"success": True, "run_id"}
\* or, for any exception e of the client, {"success": False, "error": str(e)};
\* str(e) is empty for an exception raised without a message.
SendResults ==
    {[success |-> TRUE, run_id |-> "run-1"],
     [success |-> FALSE, error |-> "agent not found"],
     [success |-> FALSE, error |-> ""]}

\* The path execute_schedule derives from its arguments.
DispatchPath(d) ==
    IF d.schedule_type = "one-time" /\ d.execute_at # None
    THEN get_onetime_schedule_path(d.api_key, d.execute_at, d.schedule_id)
    ELSE get_recurring_schedule_path(d.api_key, d.schedule_id)

DispatchFiles(d) ==
    IF d.schedule_type = "one-time" /\ d.execute_at # None
    THEN onetime_files ELSE recurring_files

\* Dispatch d moves to e; the local copy of the record goes when the call
\* returns.
Become(d, e) ==
    dispatches' = (dispatches \ {d})
                     \cup {IF e.pc = "done" THEN [e EXCEPT !.schedule = None] ELSE e}

\* Mutant: no `if not schedule: return`; the call goes on to the send.
Load_goes_on_when_missing(d) ==
    /\ UNCHANGED calls
    /\ d.pc = "start"
    /\ LET file_path == DispatchPath(d)
           files == DispatchFiles(d)
       IN  IF ~load_schedule_found(files, file_path)
           THEN Become(d, [d EXCEPT !.pc = "sending"])
           ELSE IF load_schedule_raises(files, file_path)
           THEN Become(d, [d EXCEPT !.pc = "done", !.outcome = "crashed"])
           ELSE Become(d, [d EXCEPT !.pc = "claim",
                                    !.schedule = Some(load_schedule(files, file_path))])
    /\ UNCHANGED <<now, swept, nextId, recurring_files, onetime_files,
                   result_files, dirs, unswept>>

\* execute_schedule, first step: schedule = load_schedule(file_path); a
\* missing record ends the call ("Schedule deleted").
Load(d) ==
    /\ UNCHANGED calls
    /\ d.pc = "start"
    /\ LET file_path == DispatchPath(d)
           files == DispatchFiles(d)
       IN  IF ~load_schedule_found(files, file_path)
           THEN Become(d, [d EXCEPT !.pc = "done", !.outcome = "gone"])
           ELSE IF load_schedule_raises(files, file_path)
           THEN Become(d, [d EXCEPT !.pc = "done", !.outcome = "crashed"])
           ELSE Become(d, [d EXCEPT !.pc = "claim",
                                    !.schedule = Some(load_schedule(files, file_path))])
    /\ UNCHANGED <<now, swept, nextId, recurring_files, onetime_files,
                   result_files, dirs, unswept>>

\* Mutant: the handler swallows the exception and the call goes on to send.
ClaimOneTime_swallows_error(d, io_fault) ==
    /\ UNCHANGED calls
    /\ d.pc = "claim"
    /\ d.schedule_type = "one-time"
    /\ LET file_path == DispatchPath(d)
       IN  IF unlink_raises(onetime_files, file_path, io_fault)
           THEN /\ Become(d, [d EXCEPT !.pc = "sending", !.io_error = io_fault])
                /\ UNCHANGED onetime_files
           ELSE /\ onetime_files' = unlink(onetime_files, file_path)
                /\ Become(d, [d EXCEPT !.pc = "sending"])
    /\ UNCHANGED <<now, swept, nextId, recurring_files, result_files, dirs, unswept>>

\* One-time: Path(file_path).unlink() inside try/except Exception; any
\* exception ends the call ("Could not lock schedule for execution").
\* Otherwise the call goes on to `await execute_letta_message(...)`: the
\* send is invoked, with no access to the store in between.
ClaimOneTime(d, io_fault) ==
    /\ UNCHANGED calls
    /\ d.pc = "claim"
    /\ d.schedule_type = "one-time"
    /\ LET file_path == DispatchPath(d)
       IN  IF unlink_raises(onetime_files, file_path, io_fault)
           THEN /\ Become(d, [d EXCEPT !.pc = "done", !.outcome = "lock-failed",
                                       !.io_error = io_fault])
                /\ UNCHANGED onetime_files
           ELSE /\ onetime_files' = unlink(onetime_files, file_path)
                /\ Become(d, [d EXCEPT !.pc = "sending"])
    /\ UNCHANGED <<now, swept, nextId, recurring_files, result_files, dirs, unswept>>

\* Recurring: schedule["last_run"] = datetime.utcnow().isoformat(), on the
\* dispatch's own copy of the record: the clock is read here, the file is
\* written by the save_schedule that follows.
StampLastRun(d) ==
    /\ UNCHANGED calls
    /\ d.pc = "claim"
    /\ d.schedule_type = "recurring"
    /\ Become(d, [d EXCEPT !.pc = "save",
                           !.schedule = Some([d.schedule[1] EXCEPT
                                                 !.last_run = isoformat(utcnow(now))])])
    /\ UNCHANGED <<now, swept, nextId, recurring_files, onetime_files,
                   result_files, dirs, unswept>>

\* Mutant: the send comes first; the record is not saved before it.
ClaimRecurring_sends_unsaved(d, io_fault) ==
    /\ UNCHANGED calls
    /\ d.pc = "save"
    /\ IF io_fault
       THEN Become(d, [d EXCEPT !.pc = "done", !.outcome = "crashed",
                                !.io_error = TRUE])
       ELSE Become(d, [d EXCEPT !.pc = "sending"])
    /\ UNCHANGED <<now, swept, nextId, recurring_files, onetime_files,
                   result_files, dirs, unswept>>

\* Recurring: save_schedule(file_path, schedule) with no handler around it:
\* an OSError ends the call with that exception. save_schedule creates the
\* parent directory and creates or overwrites the file, whether or not the
\* file is still there. The call then goes on to
\* `await execute_letta_message(...)`.
ClaimRecurring(d, io_fault) ==
    /\ UNCHANGED calls
    /\ d.pc = "save"
    /\ LET file_path == DispatchPath(d)
           schedule == d.schedule[1]
       IN  IF io_fault
           THEN /\ Become(d, [d EXCEPT !.pc = "done", !.outcome = "crashed",
                                       !.io_error = TRUE])
                /\ UNCHANGED <<recurring_files, dirs>>
           ELSE /\ recurring_files' = WriteFile(recurring_files, file_path,
                                          encrypt_json(schedule, EncryptionKey))
                /\ dirs' = mkdir_recurring_parents(dirs, file_path)
                /\ Become(d, [d EXCEPT !.pc = "sending"])
    /\ UNCHANGED <<now, swept, nextId, onetime_files, result_files, unswept>>

\* Mutant: the outcome is not written.
save_execution_result_skip(api_key, schedule_id, schedule_type, run_id, error, status) ==
    result_files

\* Mutant: the status keeps its default, "success".
save_execution_result_default_status(api_key, schedule_id, schedule_type, run_id, error, status) ==
    LET base == [schedule_id |-> schedule_id, schedule_type |-> schedule_type,
                 status |-> "success", executed_at |-> isoformat(utcnow(now))]
        with_run == IF run_id # "" THEN base @@ [run_id |-> run_id] ELSE base
        result_data == IF error # "" THEN with_run @@ [error |-> error] ELSE with_run
    IN  WriteFile(result_files, ResultPath(api_key, schedule_id),
                  encrypt_json(result_data, EncryptionKey))

\* Mutant: open(result_file, "xb"): the first result of an id stays.
save_execution_result_keeps_first(api_key, schedule_id, schedule_type, run_id, error, status) ==
    LET base == [schedule_id |-> schedule_id, schedule_type |-> schedule_type,
                 status |-> status, executed_at |-> isoformat(utcnow(now))]
        with_run == IF run_id # "" THEN base @@ [run_id |-> run_id] ELSE base
        result_data == IF error # "" THEN with_run @@ [error |-> error] ELSE with_run
    IN  IF ResultPath(api_key, schedule_id) \in DOMAIN result_files
        THEN result_files
        ELSE WriteFile(result_files, ResultPath(api_key, schedule_id),
                       encrypt_json(result_data, EncryptionKey))

\* save_execution_result: run_id and error are written only when truthy.
save_execution_result(api_key, schedule_id, schedule_type, run_id, error, status) ==
    LET base == [schedule_id |-> schedule_id, schedule_type |-> schedule_type,
                 status |-> status, executed_at |-> isoformat(utcnow(now))]
        with_run == IF run_id # "" THEN base @@ [run_id |-> run_id] ELSE base
        result_data == IF error # "" THEN with_run @@ [error |-> error] ELSE with_run
    IN  WriteFile(result_files, ResultPath(api_key, schedule_id),
                  encrypt_json(result_data, EncryptionKey))

\* Mutant: after a failed send the one-time record is put back for the next
\* sweep.
SendReturn_restores_onetime(d, result) ==
    /\ UNCHANGED calls
    /\ d.pc = "sending"
    /\ result_files' =
          IF result.success
          THEN save_execution_result(d.api_key, d.schedule_id, d.schedule_type,
                                     result.run_id, "", "success")
          ELSE save_execution_result(d.api_key, d.schedule_id, d.schedule_type,
                                     "", result.error, "failed")
    /\ dirs' = mkdir_results(dirs, d.api_key)
    /\ onetime_files' =
          IF ~result.success /\ d.schedule_type = "one-time"
          THEN save_schedule(onetime_files, DispatchPath(d), d.schedule[1])
          ELSE onetime_files
    /\ Become(d, [d EXCEPT
           !.result = Some(result),
           !.pc = IF ~result.success /\ d.schedule_type = "recurring"
                  THEN "terminate" ELSE "done",
           !.outcome = IF result.success THEN "sent-ok" ELSE "sent-failed"])
    /\ UNCHANGED <<now, swept, nextId, recurring_files, unswept>>

\* Mutant: after a failed send the call starts over.
SendReturn_retries(d, result) ==
    /\ UNCHANGED calls
    /\ d.pc = "sending"
    /\ result_files' =
          IF result.success
          THEN save_execution_result(d.api_key, d.schedule_id, d.schedule_type,
                                     result.run_id, "", "success")
          ELSE save_execution_result(d.api_key, d.schedule_id, d.schedule_type,
                                     "", result.error, "failed")
    /\ dirs' = mkdir_results(dirs, d.api_key)
    /\ Become(d, [d EXCEPT
           !.result = Some(result),
           !.pc = IF ~result.success THEN "start" ELSE "done",
           !.outcome = IF result.success THEN "sent-ok" ELSE "sent-failed"])
    /\ UNCHANGED <<now, swept, nextId, recurring_files, onetime_files, unswept>>

\* The send returns and the outcome is saved: status success with the run_id,
\* or status failed with the error; a failed recurring dispatch goes on to
\* delete its schedule.
SendReturn(d, result) ==
    /\ UNCHANGED calls
    /\ d.pc = "sending"
    /\ result_files' =
          IF result.success
          THEN save_execution_result(d.api_key, d.schedule_id, d.schedule_type,
                                     result.run_id, "", "success")
          ELSE save_execution_result(d.api_key, d.schedule_id, d.schedule_type,
                                     "", result.error, "failed")
    /\ dirs' = mkdir_results(dirs, d.api_key)
    /\ Become(d, [d EXCEPT
           !.result = Some(result),
           !.pc = IF ~result.success /\ d.schedule_type = "recurring"
                  THEN "terminate" ELSE "done",
           !.outcome = IF result.success THEN "sent-ok" ELSE "sent-failed"])
    /\ UNCHANGED <<now, swept, nextId, recurring_files, onetime_files, unswept>>

\* "Terminate recurring schedules on failure": Path(file_path).unlink() inside
\* try/except Exception; an exception is logged and the call returns.
Terminate(d, io_fault) ==
    /\ UNCHANGED calls
    /\ d.pc = "terminate"
    /\ LET file_path == DispatchPath(d)
       IN  IF unlink_raises(recurring_files, file_path, io_fault)
           THEN /\ Become(d, [d EXCEPT !.pc = "done", !.io_error = io_fault])
                /\ UNCHANGED recurring_files
           ELSE /\ recurring_files' = unlink(recurring_files, file_path)
                /\ Become(d, [d EXCEPT !.pc = "done"])
    /\ UNCHANGED <<now, swept, nextId, onetime_files, result_files, dirs, unswept>>

\* ----------------------------------------------------------- inputs
\* execute_at as a client may post it: a tick before now, now or a tick after
\* now, written naive or in a +01:00 offset.
ExecuteAtInputs ==
    {<<i + (IF tz = None THEN 0 ELSE tz[1]) * TicksPerHour, tz>> :
        i \in {j \in {now - 1, now, now + 1} : j >= 0}, tz \in TzInputs}

\* Credentials are interchangeable: the first schedule is created by "k1".
TenantInputs == IF nextId = 1 THEN {"k1"} ELSE Tenants
CredentialInputs == TenantInputs \cup {"bad"}

\* The system: requests, sweeps and dispatches as time passes. The history
\* of answers is off, so a request that reads or is refused leaves every
\* variable as it is; Next takes the requests that are served.
Next ==
    \/ \E k \in TenantInputs, c \in CronInputs : create_recurring_schedule(k, c)
    \/ \E k \in TenantInputs, e \in ExecuteAtInputs : create_onetime_schedule(k, e)
    \/ \E k \in Tenants, i \in Ids :
          recurring_schedule_status(k, i) = 200 /\ delete_recurring_schedule(k, i)
    \/ \E k \in Tenants, i \in Ids :
          onetime_schedule_status(k, i) = 200 /\ delete_onetime_schedule(k, i)
    \/ \E o \in Orders(list_all_recurring_schedules) : check_and_execute_schedules(o)
    \/ Tick
    \/ \E d \in dispatches : Load(d)
    \/ \E d \in dispatches, f \in BOOLEAN : ClaimOneTime(d, f)
    \/ \E d \in dispatches : StampLastRun(d)
    \/ \E d \in dispatches, f \in BOOLEAN : ClaimRecurring(d, f)
    \/ \E d \in dispatches, r \in SendResults : SendReturn(d, r)
    \/ \E d \in dispatches, f \in BOOLEAN : Terminate(d, f)

Spec == Init /\ [][Next]_vars

\* ------------------------------------------------- the store and the API
\* The store functions as their callers (the handlers, execute_schedule) run
\* them, one file operation each, in any order; the outcome of a call goes to
\* the history.
StorePaths == {get_recurring_schedule_path(k, i) : k \in Tenants, i \in Ids}

\* The recurring record of schedule schedule_id of credential api_key.
StoreRecord(api_key, schedule_id, last_run) ==
    [id |-> schedule_id, api_key |-> api_key, cron |-> EveryMinute,
     created_at |-> isoformat(utcnow(0)), last_run |-> last_run]

\* The records a caller may save at a path: the record of that key, before
\* and after a run.
StoreRecords(file_path) ==
    {StoreRecord(k, file_path[2], lr) :
        k \in {c \in Tenants : get_api_key_hash(c) = file_path[1]},
        lr \in {None, isoformat(utcnow(now))}}

save_schedule_call(file_path, schedule_data) ==
    /\ CanLog
    /\ Logged([op |-> "save_schedule", path |-> file_path, data |-> schedule_data])
    /\ recurring_files' = save_schedule(recurring_files, file_path, schedule_data)
    /\ dirs' = mkdir_recurring_parents(dirs, file_path)
    /\ UNCHANGED <<now, swept, nextId, onetime_files, result_files, dispatches, unswept>>

\* What a call of load_schedule gives: an exception, None or the record.
load_schedule_outcome(files, path) ==
    IF ~load_schedule_found(files, path) THEN [raised |-> FALSE, value |-> None]
    ELSE IF load_schedule_raises(files, path) THEN [raised |-> TRUE, value |-> None]
    ELSE [raised |-> FALSE, value |-> Some(load_schedule(files, path))]

load_schedule_call(file_path) ==
    /\ CanLog
    /\ Logged([op |-> "load_schedule", path |-> file_path,
               ret |-> load_schedule_outcome(recurring_files, file_path)])
    /\ UNCHANGED <<now, swept, nextId, recurring_files, onetime_files,
                   result_files, dirs, dispatches, unswept>>

delete_schedule_call(file_path) ==
    /\ CanLog
    /\ Logged([op |-> "delete_schedule", path |-> file_path,
               ret |-> delete_schedule_returns(recurring_files, file_path)])
    /\ recurring_files' = delete_schedule(recurring_files, file_path)
    /\ UNCHANGED <<now, swept, nextId, onetime_files, result_files, dirs,
                   dispatches, unswept>>

\* get_encryption_key: the key comes from the environment of the process; a
\* record sealed before the key was changed (or by a process that generated
\* a temporary key) does not open under the present key.
PreviousKey == "key-0"

\* A store as a running deployment may hold it: up to MaxSched recurring
\* schedules, each of some tenant, each sealed under the present or under a
\* previous key, some with a dispatch that a sweep spawned and that has not
\* begun; the history is on.
InitStore ==
    /\ now = 0
    /\ swept = FALSE
    /\ onetime_files = EmptyMap
    /\ result_files = EmptyMap
    /\ unswept = {}
    /\ calls = [on |-> TRUE, log |-> <<>>]
    /\ \E n \in 0..MaxSched :
          \E owner \in [1..n -> Tenants],
             key \in [1..n -> {EncryptionKey, PreviousKey}],
             pending \in SUBSET (1..n) :
               /\ nextId = n + 1
               /\ recurring_files =
                     [p \in {get_recurring_schedule_path(owner[i], i) : i \in 1..n} |->
                         encrypt_json(StoreRecord(owner[p[2]], p[2], None), key[p[2]])]
               /\ dirs = [rec |-> {get_api_key_hash(owner[i]) : i \in 1..n},
                          date |-> {}, hour |-> {}, user |-> {}, res |-> {}]
               /\ dispatches =
                     {SpawnRecurring(StoreRecord(owner[i], i, None)) : i \in pending}

NextStore ==
    \/ \E k \in CredentialInputs, c \in CronInputs : create_recurring_schedule(k, c)
    \/ \E k \in CredentialInputs, e \in ExecuteAtInputs : create_onetime_schedule(k, e)
    \/ \E k \in Credentials : list_recurring_schedules(k)
    \/ \E k \in Credentials : list_onetime_schedules(k)
    \/ \E k \in Credentials, i \in Ids : get_recurring_schedule(k, i)
    \/ \E k \in Credentials, i \in Ids : get_onetime_schedule(k, i)
    \/ \E k \in Credentials, i \in Ids : delete_recurring_schedule(k, i)
    \/ \E k \in Credentials, i \in Ids : delete_onetime_schedule(k, i)
    \/ \E k \in Credentials : list_execution_results(k)
    \/ \E k \in Credentials, i \in Ids : get_execution_result(k, i)
    \/ \E p \in StorePaths : \E r \in StoreRecords(p) : save_schedule_call(p, r)
    \/ \E p \in StorePaths : load_schedule_call(p)
    \/ \E p \in StorePaths : delete_schedule_call(p)
    \/ \E d \in dispatches : Load(d)

SpecStore == InitStore /\ [][NextStore]_vars

\* ------------------------------------------------------ shared vocabulary
\* A step of the sweep: the trigger's flag goes up.
SweepStep == ~swept /\ swept'

\* The dispatches a step spawns.
Spawned == dispatches' \ dispatches

\* The dispatch has invoked the send.
ReachedSend(d) ==
    d.pc \in {"sending", "terminate"} \/ d.outcome \in {"sent-ok", "sent-failed"}

\* The step ends dispatch d: its successor is at "done".
Finishes(d) ==
    /\ d.pc # "done"
    /\ \E e \in dispatches' :
          e.at = d.at /\ e.schedule_id = d.schedule_id /\ e.pc = "done"

After(d) ==
    CHOOSE e \in dispatches' : e.at = d.at /\ e.schedule_id = d.schedule_id

RecurringRecords == {load_schedule(recurring_files, p) : p \in Readable(recurring_files)}
OneTimeRecords == {load_schedule(onetime_files, p) : p \in Readable(onetime_files)}

RecurringExists(d) == DispatchPath(d) \in DOMAIN recurring_files
OneTimeExists(d) == DispatchPath(d) \in DOMAIN onetime_files

ResultOf(d) ==
    load_schedule(result_files, ResultPath(d.api_key, d.schedule_id))
HasResult(d) == ResultPath(d.api_key, d.schedule_id) \in DOMAIN result_files

\* ------------------------------------------------------------------- C1
\* C1: of all the dispatches spawned for one one-time record, by one sweep or
\* by several, at most one reaches the send step; the others stop without
\* sending.
C1_AtMostOneSend ==
    \A d1, d2 \in dispatches :
        /\ d1.schedule_type = "one-time"
        /\ d2.schedule_type = "one-time"
        /\ d1.schedule_id = d2.schedule_id
        /\ ReachedSend(d1)
        /\ ReachedSend(d2)
        => d1 = d2

\* Two dispatches of one record have both ended: one sent, the other did not.
C1_Witness ==
    \E d1, d2 \in dispatches :
        /\ d1 # d2
        /\ d1.schedule_type = "one-time"
        /\ d1.schedule_id = d2.schedule_id
        /\ d1.outcome \in {"sent-ok", "sent-failed"}
        /\ d2.pc = "done"
        /\ d2.outcome \in {"gone", "lock-failed"}

C3_PastOneTimeDispatchedByFirstSweep ==
    /\ [][SweepStep /\ (\A r \in RecurringRecords : ~is_recurring_schedule_due_raises(r))
          => \A s \in OneTimeRecords :
                /\ s.id \in unswept
                /\ s.execute_at[2] = None
                /\ s.execute_at[1] <= s.created_at[1]
                => \E d \in Spawned : d.schedule_id = s.id]_vars
    /\ [](\A d \in dispatches :
            d.schedule_type = "one-time" /\ d.pc = "done" /\ d.outcome = "sent-ok"
            => /\ ~OneTimeExists(d)
               /\ HasResult(d)
               /\ ResultOf(d).status = "success"
               /\ DictGet(ResultOf(d), "run_id", "") # "")

C5_TerminatedForever ==
    [][\A d \in dispatches :
          /\ d.schedule_type = "recurring"
          /\ d.pc = "done"
          /\ d.outcome = "sent-failed"
          /\ ~d.io_error
          => /\ DispatchPath(d) \notin DOMAIN recurring_files'
             /\ \A e \in dispatches' :
                   e.schedule_id = d.schedule_id /\ e.pc = "sending"
                   => e \in dispatches]_vars

\* ------------------------------------------------------------------- C6
\* C6: no step deletes a result: a result file that exists still exists after
\* any step (a dispatch step, a user's delete, a sweep and its cleanup).
C6_ResultsNeverDeleted ==
    [][\A p \in DOMAIN result_files : p \in DOMAIN result_files']_vars

\* A result outlives its schedule and the cleanup of the emptied directories.
C6_Witness ==
    \E p \in DOMAIN result_files :
        /\ \A q \in DOMAIN recurring_files : q[2] # p[2]
        /\ \A q \in DOMAIN onetime_files : q[4] # p[2]
        /\ dirs.rec = {}
        /\ dirs.user = {}

\* ------------------------------------------------------------------- C7
\* C7: a sweep dispatches every stored schedule that is due, whatever the
\* due-check of another stored schedule does, and runs the cleanup.
C7_SweepIsolatesFailures ==
    [][SweepStep =>
          /\ \A s \in RecurringRecords :
                /\ ~is_recurring_schedule_due_raises(s)
                /\ is_recurring_schedule_due(s, now_utc(now))
                => \E d \in Spawned : d.schedule_id = s.id
          /\ \A s \in OneTimeRecords :
                /\ get_onetime_schedule_path(s.api_key, s.execute_at, s.id)
                       \in list_onetime_schedules_for_time(
                               strftime_date(now_utc(now)), strftime_hour(now_utc(now)))
                /\ is_onetime_schedule_due(s, now_utc(now))
                => \E d \in Spawned : d.schedule_id = s.id
          /\ dirs' = cleanup_empty_directories(dirs)]_vars

\* ------------------------------------------------------------------- C8
\* The cron firings, and the first one strictly after an instant.
IsCronBoundary(cron, t) == t % CronPeriod(cron) = 0
FirstBoundaryAfter(cron, a) ==
    CHOOSE t \in (a + 1)..(a + TicksPerHour) :
        /\ IsCronBoundary(cron, t)
        /\ \A u \in (a + 1)..(t - 1) : ~IsCronBoundary(cron, u)

\* The anchor: last_run when present, created_at otherwise (both UTC).
Anchor(s) == IF s.last_run # None THEN s.last_run[1] ELSE s.created_at[1]

\* C8: for every stored recurring schedule and every instant t, the schedule
\* is due at t iff t is at or after the first cron boundary strictly after its
\* anchor; a schedule that never ran is not due at its creation time.
C8_RecurringDueAtFirstBoundary ==
    \A s \in RecurringRecords :
        croniter_valid(s.cron) =>
            /\ \A t \in 0..(MaxTime + TicksPerHour) :
                  is_recurring_schedule_due(s, now_utc(t))
                      <=> t >= FirstBoundaryAfter(s.cron, Anchor(s))
            /\ s.last_run = None =>
                  ~is_recurring_schedule_due(s, now_utc(s.created_at[1]))

\* A schedule that has run stands exactly on its next boundary, and there
\* it is due.
C8_Witness ==
    \E s \in RecurringRecords :
        /\ croniter_valid(s.cron)
        /\ s.last_run # None
        /\ now = FirstBoundaryAfter(s.cron, Anchor(s))
        /\ is_recurring_schedule_due(s, now_utc(now))

\* ------------------------------------------------------------------- C9
\* The instant execute_at denotes: its wall-clock reading less its offset, a
\* naive reading being UTC.
ExecuteInstant(s) ==
    s.execute_at[1]
        - (IF s.execute_at[2] = None THEN 0 ELSE s.execute_at[2][1]) * TicksPerHour

\* C9: for every stored one-time schedule and every instant t, the schedule
\* is due at t iff t >= execute_at, t = execute_at included; no stored record
\* carries an executed flag that changes this.
C9_OneTimeDueIffReached ==
    \A s \in OneTimeRecords :
        \A t \in 0..(MaxTime + 1) :
            is_onetime_schedule_due(s, now_utc(t)) <=> t >= ExecuteInstant(s)

\* The clock stands exactly on the execute_at of a stored schedule.
C9_Witness ==
    \E s \in OneTimeRecords :
        /\ now = ExecuteInstant(s)
        /\ is_onetime_schedule_due(s, now_utc(now))

\* ------------------------------------------------------------------ C10
\* C10: the first sweep after the creation of a recurring schedule with cron
\* "* * * * *" and no last_run, running in a later minute than the creation,
\* spawns exactly one dispatch for it; and the claim of a recurring dispatch
\* leaves the record in the store with last_run set.
C10_FirstSweepDispatchesOnce ==
    /\ [][SweepStep =>
            \A s \in RecurringRecords :
                /\ s.cron = EveryMinute
                /\ s.last_run = None
                /\ s.id \in unswept
                /\ s.created_at[1] < now
                => Cardinality({d \in Spawned : d.schedule_id = s.id}) = 1]_vars
    /\ [][\A d \in dispatches :
            /\ d.schedule_type = "recurring"
            /\ d.pc = "save"
            /\ After(d).pc = "sending"
            => /\ DispatchPath(d) \in DOMAIN recurring_files'
               /\ recurring_files'[DispatchPath(d)].json.last_run # None]_vars

\* ------------------------------------------------------------------ C11
\* C11: the empty-directory cleanup is idempotent: with the files unchanged,
\* a second pass over the tree the first pass left changes nothing.
C11_CleanupIdempotent ==
    cleanup_empty_directories(cleanup_empty_directories(dirs))
        = cleanup_empty_directories(dirs)

\* A pass has work on every level: an emptied user directory whose removal
\* empties its hour directory and its date directory, and an emptied user
\* directory of the recurring tree.
C11_Witness ==
    /\ dirs.user # {}
    /\ dirs.rec # {}
    /\ cleanup_empty_directories(dirs).user = {}
    /\ cleanup_empty_directories(dirs).hour = {}
    /\ cleanup_empty_directories(dirs).date = {}
    /\ cleanup_empty_directories(dirs).rec = {}

\* ------------------------------------------------------------------ C15
\* C15: no step replaces the stored last_run of a recurring schedule by an
\* earlier one: when a record that carries a last_run is overwritten, the new
\* last_run is greater than or equal to the old one.
C15_LastRunNeverDecreases ==
    [][\A p \in DOMAIN recurring_files \cap DOMAIN recurring_files' :
          LET old == load_schedule(recurring_files, p).last_run
              new == load_schedule(recurring_files', p).last_run
          IN  old # None => /\ new # None
                            /\ parse(new).wall >= parse(old).wall]_vars

\* ------------------------------------------------------------------ C14
\* C14: when the claim step of a dispatch (the delete of a one-time record,
\* the save of last_run of a recurring one) fails on an I/O error, the
\* dispatch ends there: it has not invoked the send and the step writes no
\* result.
C14_ClaimFailureAborts ==
    [][\A d \in dispatches :
          /\ d.pc \in {"claim", "save"}
          /\ After(d).io_error
          => /\ After(d).pc = "done"
             /\ ~ReachedSend(After(d))
             /\ After(d).result = None
             /\ result_files' = result_files]_vars

\* A one-time dispatch and a recurring dispatch have both ended on an I/O
\* error of their claim step, neither having sent; the one-time record is
\* still in the store.
C14_Witness ==
    \E d1, d2 \in dispatches :
        /\ d1.schedule_type = "one-time"
        /\ d1.pc = "done" /\ d1.io_error /\ d1.outcome = "lock-failed"
        /\ OneTimeExists(d1)
        /\ ~HasResult(d1)
        /\ d2.schedule_type = "recurring"
        /\ d2.pc = "done" /\ d2.io_error /\ d2.outcome = "crashed"
        /\ ~HasResult(d2)

\* ------------------------------------------------------------------ C16
\* C16: every stored one-time schedule lies in the bucket named by the date
\* and the hour of its execute_at taken in UTC, so that at the instant
\* execute_at the sweep's listing of the current bucket contains it.
C16_BucketIsUtcHourOfExecuteAt ==
    \A p \in Readable(onetime_files) :
        LET s == load_schedule(onetime_files, p)
        IN  /\ p[1] = strftime_date(now_utc(ExecuteInstant(s)))
            /\ p[2] = strftime_hour(now_utc(ExecuteInstant(s)))
            /\ now = ExecuteInstant(s) =>
                  p \in list_onetime_schedules_for_time(
                            strftime_date(now_utc(now)), strftime_hour(now_utc(now)))

\* ------------------------------------------------------------------ C18
\* C18: whenever a result exists for the id of a one-time schedule, no
\* one-time record with that id exists in the store.
C18_ResultMeansRecordGone ==
    \A p \in DOMAIN result_files :
        load_schedule(result_files, p).schedule_type = "one-time"
            => \A q \in DOMAIN onetime_files : q[4] # p[2]

\* The result of a one-time schedule exists, while another one-time record
\* is still pending in the store.
C18_Witness ==
    /\ \E p \in DOMAIN result_files :
          load_schedule(result_files, p).schedule_type = "one-time"
    /\ onetime_files # EmptyMap

\* ---------------------------------------------- vocabulary of the history
\* The step adds an entry to the history; the entry it adds.
Logs == Len(calls'.log) = Len(calls.log) + 1
NewEntry == calls'.log[Len(calls'.log)]

IsCall(e, op, path) == e.op = op /\ e.path = path
IsRequest(e) == "status" \in DOMAIN e

\* Entry e may have written the file at path: a save_schedule at that path,
\* or a served POST (which saves at the path of a fresh id).
MayPut(e, path) ==
    \/ e.op = "save_schedule" /\ e.path = path
    \/ e.op = "POST /schedules/recurring" /\ e.status = 201

\* A delete_schedule of path has returned True and nothing has been put at
\* path since.
DeletedAndNotPutSince(path) ==
    \E i \in DOMAIN calls.log :
        /\ IsCall(calls.log[i], "delete_schedule", path)
        /\ calls.log[i].ret
        /\ \A j \in (i + 1)..Len(calls.log) : ~MayPut(calls.log[j], path)

\* ------------------------------------------------------------------ C12
\* C12: load_schedule never raises: for a file that is missing, and for a
\* file that does not unseal, it gives None; so no dispatch ends on the
\* exception of its load.
C12_GetNeverRaises ==
    /\ \A i \in DOMAIN calls.log :
          calls.log[i].op = "load_schedule" => ~calls.log[i].ret.raised
    /\ \A d \in dispatches : d.outcome # "crashed"

\* ------------------------------------------------------------------ C13
\* C13: once a delete has returned True for a recurring record, no later read
\* finds the record: a record whose id has been allotted and that is absent
\* (a user's delete_schedule removed it; no failed dispatch did) is absent
\* after every step.
C13_DeletedNeverObservedAgain ==
    [][\A p \in DOMAIN recurring_files' :
          /\ p[2] < nextId
          /\ ~\E d \in dispatches : d.schedule_id = p[2] /\ d.outcome = "sent-failed"
          => p \in DOMAIN recurring_files]_vars

\* The calls of delete_schedule on their own, in the history of the store: a
\* call returns True exactly when the file existed, and leaves it absent;
\* after a delete that returned True, and until the record is put again,
\* every further delete of that path returns False and every load of that
\* path gives None.
C13_DeleteOnceThenGone ==
    [][Logs =>
          LET e == NewEntry
          IN  /\ e.op = "delete_schedule" =>
                    /\ e.ret = (e.path \in DOMAIN recurring_files)
                    /\ e.path \notin DOMAIN recurring_files'
                    /\ DeletedAndNotPutSince(e.path) => ~e.ret
              /\ e.op = "load_schedule" /\ DeletedAndNotPutSince(e.path) =>
                    e.ret = [raised |-> FALSE, value |-> None]]_vars

\* Two deletes of one existing record: the first returned True, the second
\* False.
C13_TwoDeletes ==
    /\ Len(calls.log) = 2
    /\ calls.log[1].op = "delete_schedule"
    /\ calls.log[2].op = "delete_schedule"
    /\ calls.log[1].path = calls.log[2].path
    /\ calls.log[1].ret
    /\ ~calls.log[2].ret

C19_InvalidCredentialRejected ==
    [][Logs /\ IsRequest(NewEntry) /\ NewEntry.api_key \notin Tenants =>
          /\ NewEntry.status = 401
          /\ UNCHANGED <<recurring_files, onetime_files, result_files, dirs>>]_vars

\* A delete and a create with an invalid credential were both refused, over
\* a store that holds a schedule.
C19_Witness ==
    /\ Len(calls.log) = 2
    /\ calls.log[1] = Entry("DELETE /schedules/recurring/{schedule_id}", "bad", 401)
    /\ calls.log[2] = Entry("POST /schedules/recurring", "bad", 401)
    /\ recurring_files # EmptyMap

\* ------------------------------------------------------------------ C20
\* C20: the lists a credential gets hold only schedules that carry that
\* credential, and the ids listed for two different tenants are disjoint.
ListedIds(api_key) ==
    {s.id : s \in list_recurring_schedules_body(api_key)
                     \cup list_onetime_schedules_body(api_key)}

C20_ListsAreIsolated ==
    /\ \A k \in Tenants :
          \A s \in list_recurring_schedules_for_user(k)
                      \cup list_onetime_schedules_for_user(k) : s.api_key = k
    /\ \A k1, k2 \in Tenants : k1 # k2 => ListedIds(k1) \cap ListedIds(k2) = {}

\* Each of the two tenants has a schedule in its list.
C20_Witness ==
    \A k \in Tenants : ListedIds(k) # {}

\* ------------------------------------------------------------------ C21
\* No dispatch has taken the schedule of this id out of the store: no
\* one-time dispatch has claimed it and no recurring dispatch has seen its
\* send fail.
NotConsumed(schedule_id) ==
    \A d \in dispatches :
        d.schedule_id = schedule_id =>
            /\ ~(d.schedule_type = "one-time" /\ ReachedSend(d))
            /\ d.outcome # "sent-failed"

\* C21: after a user's DELETE of a schedule has been answered with success, a
\* GET of that id by the same tenant is answered 404: a schedule that was
\* created, that no dispatch has consumed and that GET does not find (its
\* owner has deleted it) is not found after any further step either.
C21_DeletedIsNotFound ==
    [][\A k \in Tenants, i \in Ids :
          /\ i < nextId
          /\ NotConsumed(i)
          /\ recurring_schedule_status(k, i) = 404
          /\ onetime_schedule_status(k, i) = 404
          => /\ (recurring_schedule_status(k, i))' = 404
             /\ (onetime_schedule_status(k, i))' = 404]_vars

\* The requests on their own: a DELETE of an id whose record is not in the
\* store is answered 404 and changes nothing, and straight after a DELETE
\* that was answered 200 the record is not found.
C21_DeleteAnswers ==
    [][\A k \in Tenants, i \in Ids :
          /\ delete_recurring_schedule(k, i) =>
                /\ ~load_schedule_found(recurring_files,
                                        get_recurring_schedule_path(k, i)) =>
                      /\ NewEntry.status = 404
                      /\ UNCHANGED <<recurring_files, onetime_files, result_files, dirs>>
                /\ NewEntry.status = 200 =>
                      (recurring_schedule_status(k, i))' = 404
          /\ delete_onetime_schedule(k, i) =>
                /\ find_onetime_schedule_for_user(k, i) = {} =>
                      /\ NewEntry.status = 404
                      /\ UNCHANGED <<recurring_files, onetime_files, result_files, dirs>>
                /\ NewEntry.status = 200 =>
                      (onetime_schedule_status(k, i))' = 404]_vars

\* ------------------------------------------------------------------ C22
HasApiKey(schedule) == "api_key" \in DOMAIN schedule

StepOf(d) == d \in dispatches /\ d \notin dispatches'

\* C23: a dispatch whose load finds no record ends in that step with the
\* outcome schedule-gone: it has not invoked the send, it holds no result,
\* and the step changes no schedule file, no result file and no directory;
\* a dispatch that ended so stays ended.
C23_GoneEndsDispatch ==
    /\ [][\A d \in dispatches :
            /\ StepOf(d)
            /\ d.pc = "start"
            /\ ~load_schedule_found(DispatchFiles(d), DispatchPath(d))
            => /\ After(d).pc = "done"
               /\ After(d).outcome = "gone"
               /\ ~ReachedSend(After(d))
               /\ After(d).result = None
               /\ UNCHANGED <<recurring_files, onetime_files, result_files, dirs>>]_vars
    /\ [](\A d \in dispatches :
            d.outcome = "gone" => d.pc = "done" /\ d.result = None)

\* A recurring and a one-time dispatch have both ended schedule-gone, and no
\* result exists for either.
C23_Witness ==
    \E d1, d2 \in dispatches :
        /\ d1.schedule_type = "recurring"
        /\ d2.schedule_type = "one-time"
        /\ d1.outcome = "gone" /\ d1.pc = "done"
        /\ d2.outcome = "gone" /\ d2.pc = "done"
        /\ ~HasResult(d1)
        /\ ~HasResult(d2)

\* ------------------------------------------------------------------ C24
\* C24: the step by which a dispatch invokes the send is its claim: for a
\* one-time schedule the step removes the record, which was there, and for
\* a recurring schedule the step writes the record with the last_run this
\* dispatch has stamped; so while a one-time dispatch is at the send its
\* record is absent.
C24_ClaimPrecedesSend ==
    /\ [][\A d \in dispatches :
            StepOf(d) /\ After(d).pc = "sending" =>
                IF d.schedule_type = "one-time"
                THEN /\ d.pc = "claim"
                     /\ DispatchPath(d) \in DOMAIN onetime_files
                     /\ DispatchPath(d) \notin DOMAIN onetime_files'
                ELSE /\ d.pc = "save"
                     /\ d.schedule[1].last_run # None
                     /\ DispatchPath(d) \in DOMAIN recurring_files'
                     /\ load_schedule(recurring_files', DispatchPath(d))
                            = d.schedule[1]]_vars
    /\ [](\A d \in dispatches :
            d.schedule_type = "one-time" /\ d.pc = "sending" => ~OneTimeExists(d))

\* A one-time and a recurring dispatch are both at the send: the one-time
\* record is gone, the recurring record carries the dispatch's last_run.
C24_Witness ==
    \E d1, d2 \in dispatches :
        /\ d1.schedule_type = "one-time"
        /\ d1.pc = "sending"
        /\ ~OneTimeExists(d1)
        /\ d2.schedule_type = "recurring"
        /\ d2.pc = "sending"
        /\ RecurringExists(d2)
        /\ load_schedule(recurring_files, DispatchPath(d2)).last_run
               = d2.schedule[1].last_run

\* ------------------------------------------------------------------ C25
\* A call of execute_schedule, once spawned, runs: each of its steps is taken
\* when it stays possible, the return of the send included. Nothing is
\* assumed of the trigger or of the users.
DispatchStep(d) ==
    \/ Load(d)
    \/ \E f \in BOOLEAN : ClaimOneTime(d, f)
    \/ StampLastRun(d)
    \/ \E f \in BOOLEAN : ClaimRecurring(d, f)
    \/ \E r \in SendResults : SendReturn(d, r)
    \/ \E f \in BOOLEAN : Terminate(d, f)

\* The dispatch the sweep of instant at spawned for schedule_id.
DispatchOf(at, schedule_id) ==
    {d \in dispatches : d.at = at /\ d.schedule_id = schedule_id}

SweepInstants == {t \in 0..MaxTime : t % TicksPerMin = 0}

DispatchesRun ==
    \A at \in SweepInstants, i \in Ids :
        WF_vars(\E d \in DispatchOf(at, i) : DispatchStep(d))

\* The system of one tenant who posts every-minute schedules and one-time
\* schedules that are due at once, with the dispatches running.
NextLive ==
    \/ create_recurring_schedule("k1", EveryMinute)
    \/ create_onetime_schedule("k1", isoformat(utcnow(now)))
    \/ \E i \in Ids :
          recurring_schedule_status("k1", i) = 200 /\ delete_recurring_schedule("k1", i)
    \/ \E i \in Ids :
          onetime_schedule_status("k1", i) = 200 /\ delete_onetime_schedule("k1", i)
    \/ \E o \in Orders(list_all_recurring_schedules) : check_and_execute_schedules(o)
    \/ Tick
    \/ \E d \in dispatches : Load(d)
    \/ \E d \in dispatches, f \in BOOLEAN : ClaimOneTime(d, f)
    \/ \E d \in dispatches : StampLastRun(d)
    \/ \E d \in dispatches, f \in BOOLEAN : ClaimRecurring(d, f)
    \/ \E d \in dispatches, r \in SendResults : SendReturn(d, r)
    \/ \E d \in dispatches, f \in BOOLEAN : Terminate(d, f)

SpecLive == Init /\ [][NextLive]_vars /\ DispatchesRun

\* The position of a dispatch in execute_schedule.
Rank(pc) ==
    CASE pc = "start" -> 0
      [] pc = "claim" -> 1
      [] pc = "save" -> 2
      [] pc = "sending" -> 3
      [] pc = "terminate" -> 4
      [] pc = "done" -> 5

\* C25: a dispatch only moves forward through execute_schedule, so it invokes
\* the send at most once (after a failed send as well) and never runs again
\* once it has ended; a step of a dispatch spawns no dispatch; and every
\* dispatch, its send returning, ends: after an early abort, after a success
\* and after a failure.
C25_DispatchEndsAndNeverRetries ==
    /\ [][\A d \in dispatches :
            /\ d.pc = "done" => d \in dispatches'
            /\ StepOf(d) =>
                  /\ Rank(After(d).pc) > Rank(d.pc)
                  /\ Cardinality(dispatches') = Cardinality(dispatches)
                  /\ ReachedSend(d) => After(d).pc # "sending"]_vars
    /\ \A at \in SweepInstants, i \in Ids :
          (DispatchOf(at, i) # {}) ~> (\E d \in DispatchOf(at, i) : d.pc = "done")

\* Three ways to the end: a dispatch has ended after a failed send and the
\* termination of its schedule, another after an early abort.
C25_Witness ==
    \E d1, d2 \in dispatches :
        /\ d1.pc = "done" /\ d1.outcome = "sent-failed"
        /\ d1.schedule_type = "recurring"
        /\ d2.pc = "done" /\ d2.outcome \in {"gone", "lock-failed"}

ResultsOf(api_key, schedule_id) ==
    {p \in DOMAIN result_files :
        /\ p[1] = get_api_key_hash(api_key)
        /\ load_schedule(result_files, p).schedule_id = schedule_id}

\* C28: at most one result is stored per tenant and schedule id, in the file
\* named by the id; when the send of a dispatch returns, the result stored
\* for its schedule is the one of this dispatch (its type, its instant, its
\* run_id or its error), whether or not a result was there before, and the
\* number of results grows by one at most.
C28_LastWriterWins ==
    /\ [](/\ \A k \in Tenants, i \in Ids : Cardinality(ResultsOf(k, i)) <= 1
          /\ \A p \in DOMAIN result_files :
                load_schedule(result_files, p).schedule_id = p[2])
    /\ [][\A d \in dispatches :
            StepOf(d) /\ d.pc = "sending" =>
                LET r == After(d).result[1]
                    result_file == ResultPath(d.api_key, d.schedule_id)
                    stored == load_schedule(result_files', result_file)
                IN  /\ stored.schedule_id = d.schedule_id
                    /\ stored.schedule_type = d.schedule_type
                    /\ stored.executed_at = isoformat(utcnow(now))
                    /\ DictGet(stored, "run_id", "")
                          = (IF r.success THEN r.run_id ELSE "")
                    /\ DictGet(stored, "error", "")
                          = (IF r.success THEN "" ELSE r.error)
                    /\ DOMAIN result_files'
                          = DOMAIN result_files \cup {result_file}]_vars

\* Two dispatches of one schedule have both sent, one failing, one
\* succeeding; one result is stored, that of the success, which wrote last.
C28_Witness ==
    \E d1, d2 \in dispatches :
        /\ d1.schedule_id = d2.schedule_id
        /\ d1.outcome = "sent-failed"
        /\ d2.outcome = "sent-ok"
        /\ Cardinality(DOMAIN result_files) = 1
        /\ ResultOf(d2).status = "success"
        /\ ResultOf(d2).executed_at[1] > d1.at

\* ------------------------------------------------------------------ C29
\* C29: every stored result with status success has a non-empty run_id and
\* no error field, and every stored result with status failed has a
\* non-empty error and no run_id field, whatever the send returned.
C29_ResultFieldsMatchStatus ==
    \A p \in DOMAIN result_files :
        LET r == load_schedule(result_files, p)
        IN  /\ r.status = "success" =>
                  /\ DictGet(r, "run_id", "") # ""
                  /\ "error" \notin DOMAIN r
            /\ r.status = "failed" =>
                  /\ DictGet(r, "error", "") # ""
                  /\ "run_id" \notin DOMAIN r

\* ------------------------------------------------------------------ C30
\* The trigger is due to fire the sweep of this minute.
SweepDue == now % TicksPerMin = 0 /\ ~swept

\* The dispatches in flight and one more for every stored schedule stay
\* within the number of dispatches the model follows.
RoomToSpawn ==
    Cardinality(dispatches) + Cardinality(DOMAIN recurring_files)
        + Cardinality(DOMAIN onetime_files) <= MaxDispatch

\* C30: the sweep ends in the step that spawns: the dispatches it has spawned
\* have not begun and it has moved no dispatch in flight; and a sweep that is
\* due can run whatever the positions of the dispatches in flight, their
\* sends returned or not.
C30_SweepDoesNotWait ==
    /\ [][SweepStep =>
            /\ \A d \in Spawned : d.pc = "start" /\ d.at = now
            /\ \A d \in dispatches : d \in dispatches']_vars
    /\ [](SweepDue /\ RoomToSpawn =>
            \E o \in Orders(list_all_recurring_schedules) :
                ENABLED check_and_execute_schedules(o))

\* A sweep has run and spawned a dispatch while a dispatch of an earlier
\* sweep was at its send, which has not returned.
C30_Witness ==
    /\ swept
    /\ \E d1, d2 \in dispatches :
          /\ d1.at < now
          /\ d1.pc = "sending"
          /\ d2.at = now
          /\ d2.pc = "start"

\* ------------------------------------------------------------------ C31
\* The bucket of the instant now: datetime.now(timezone.utc), its date and
\* its hour.
InCurrentBucket(p) ==
    /\ p[1] = strftime_date(now_utc(now))
    /\ p[2] = strftime_hour(now_utc(now))

\* C31: every one-time dispatch a sweep spawns is for a record stored in the
\* bucket of the date and hour of now (UTC); for a record stored in another
\* bucket the sweep spawns nothing, due or not.
C31_SweepReadsCurrentBucketOnly ==
    [][SweepStep =>
          /\ \A d \in Spawned :
                d.schedule_type = "one-time" =>
                    /\ DispatchPath(d) \in DOMAIN onetime_files
                    /\ InCurrentBucket(DispatchPath(d))
          /\ \A p \in DOMAIN onetime_files :
                ~InCurrentBucket(p) =>
                    \A d \in Spawned : d.schedule_id # p[4]]_vars

\* A sweep has run: it has spawned a dispatch for a schedule of the current
\* bucket and none for a schedule that is due and stored in another bucket.
C31_Witness ==
    /\ swept
    /\ \E d \in dispatches :
          /\ d.at = now
          /\ d.schedule_type = "one-time"
          /\ d.pc = "start"
    /\ \E p \in Readable(onetime_files) :
          /\ ~InCurrentBucket(p)
          /\ is_onetime_schedule_due(load_schedule(onetime_files, p), now_utc(now))
          /\ \A d \in dispatches : d.schedule_id # p[4]

\* ------------------------------------------------------------------ C33
\* The directories of a tree d that hold nothing: a tenant directory with no
\* record, an hour directory with no tenant directory, a date directory with
\* no hour directory.
EmptyDirectories(d) ==
    [user |-> {u \in d.user : ~\E p \in DOMAIN onetime_files :
                                    <<p[1], p[2], p[3]>> = u},
     hour |-> {h \in d.hour : ~\E u \in d.user : <<u[1], u[2]>> = h},
     date |-> {dd \in d.date : ~\E h \in d.hour : h[1] = dd},
     rec  |-> {r \in d.rec : ~\E p \in DOMAIN recurring_files : p[1] = r}]

\* C33: whatever tree the pass starts from, the tree one pass leaves has no
\* empty tenant, hour or date directory under the one-time tree and no empty
\* tenant directory under the recurring tree.
C33_NoEmptyDirectoryAfterPass ==
    LET e == EmptyDirectories(cleanup_empty_directories(dirs))
    IN  e.user = {} /\ e.hour = {} /\ e.date = {} /\ e.rec = {}

\* The pass starts from a tree in which an hour directory and its date
\* directory hold only an emptied tenant directory, next to a bucket that
\* still holds a record: the first two become empty only through the pass.
C33_Witness ==
    /\ now % TicksPerMin = 0 /\ ~swept
    /\ \E u \in EmptyDirectories(dirs).user :
          /\ \A v \in dirs.user : <<v[1], v[2]>> = <<u[1], u[2]>> => v = u
          /\ \A h \in dirs.hour : h[1] = u[1] => h = <<u[1], u[2]>>
          /\ <<u[1], u[2]>> \notin EmptyDirectories(dirs).hour
          /\ u[1] \notin EmptyDirectories(dirs).date
    /\ onetime_files # <<>>

\* ------------------------------------------------------------------ C35
\* C35: the step of a dispatch that writes last_run never creates a record:
\* when the record of its schedule is no longer in the store (its user has
\* deleted it since the dispatch read it), the write leaves it absent.
C35_LastRunWriteDoesNotRecreate ==
    [][\A d \in dispatches :
          /\ StepOf(d)
          /\ d.pc = "save"
          /\ DispatchPath(d) \notin DOMAIN recurring_files
          => DispatchPath(d) \notin DOMAIN recurring_files']_vars

\* ------------------------------------------------------------------ C36
\* A one-time schedule whose user's delete has succeeded: the id has been
\* handed out, no record bears it and no dispatch has claimed it. (A one-time
\* record leaves the store only through the user's delete or through the
\* unlink of a dispatch, and a dispatch that unlinked it has reached the
\* send.)
DeletedByUser(schedule_id) ==
    /\ schedule_id < nextId
    /\ \A p \in DOMAIN onetime_files : p[4] # schedule_id
    /\ \A p \in DOMAIN recurring_files : p[2] # schedule_id
    /\ \A d \in dispatches : d.schedule_id = schedule_id => ~ReachedSend(d)

\* C36: for one one-time schedule the user's successful delete and a send
\* exclude each other. Once the delete has succeeded no dispatch of the
\* schedule ever reaches the send; and once a dispatch has claimed the
\* schedule, a delete (or get) of it by its owner is answered not found.
C36_DeleteAndSendExclusive ==
    /\ [][\A i \in Ids :
             DeletedByUser(i) =>
                 \A d \in dispatches' :
                     d.schedule_id = i /\ d.schedule_type = "one-time"
                         => ~ReachedSend(d)]_vars
    /\ [](\A d \in dispatches :
             d.schedule_type = "one-time" /\ ReachedSend(d) =>
                 onetime_schedule_status(d.api_key, d.schedule_id) = 404)

\* The user has deleted a one-time schedule after a dispatch had read it: the
\* dispatch found the file gone at its unlink, with no I/O error, and ended
\* without sending; no other dispatch sent it either.
C36_Witness ==
    \E d \in dispatches :
        /\ d.schedule_type = "one-time"
        /\ d.outcome = "lock-failed"
        /\ ~d.io_error
        /\ DeletedByUser(d.schedule_id)

\* ------------------------------------------------------------------ C38
\* C38: whenever a dispatch invokes the send, the instant is not before the
\* schedule's execute_at (one-time, offsets taken into account) and not
\* before the first cron boundary strictly after the schedule's creation
\* (recurring).
C38_NoEarlySend ==
    [][\A d \in dispatches :
          StepOf(d) /\ After(d).pc = "sending" =>
              IF d.schedule_type = "one-time"
              THEN now >= ExecuteInstant([execute_at |-> d.execute_at])
              ELSE LET s == After(d).schedule[1]
                   IN  now >= FirstBoundaryAfter(s.cron, s.created_at[1])]_vars

\* Sends at the earliest allowed instant: a one-time schedule sent by the
\* sweep of the very instant of its execute_at, and an hourly schedule sent at the first hour boundary after its creation.
C38_Witness ==
    /\ \E d \in dispatches :
          /\ d.schedule_type = "one-time"
          /\ d.pc = "sending"
          /\ now = ExecuteInstant([execute_at |-> d.execute_at])
    /\ \E d \in dispatches :
          /\ d.schedule_type = "recurring"
          /\ d.pc = "sending"
          /\ d.schedule[1].cron = Hourly
          /\ now = FirstBoundaryAfter(Hourly, d.schedule[1].created_at[1])

\* ------------------------------------------------------------------ C39
\* C39: a sweep creates, changes and deletes no schedule record and no
\* result: the three file maps are the same after the sweep as before it.
\* Of the directories it only removes, never adds, and only ones under which
\* no record is stored; the results tree keeps its directories.
C39_SweepLeavesRecordsAlone ==
    [][SweepStep =>
          /\ recurring_files' = recurring_files
          /\ onetime_files' = onetime_files
          /\ result_files' = result_files
          /\ dirs'.res = dirs.res
          /\ dirs'.rec \subseteq dirs.rec
          /\ dirs'.user \subseteq dirs.user
          /\ dirs'.hour \subseteq dirs.hour
          /\ dirs'.date \subseteq dirs.date
          /\ \A p \in DOMAIN recurring_files : p[1] \in dirs'.rec
          /\ \A p \in DOMAIN onetime_files :
                /\ <<p[1], p[2], p[3]>> \in dirs'.user
                /\ <<p[1], p[2]>> \in dirs'.hour
                /\ p[1] \in dirs'.date]_vars

\* A sweep has just run on a store that holds a record and a result, has
\* spawned a dispatch, and its cleanup has removed directories: those of the
\* bucket of a consumed one-time schedule are gone.
C39_Witness ==
    /\ swept
    /\ \E d \in dispatches : d.at = now /\ d.pc = "start"
    /\ recurring_files # <<>>
    /\ result_files # <<>>
    /\ \E d \in dispatches :
          /\ d.schedule_type = "one-time"
          /\ d.pc = "done"
          /\ DispatchPath(d)[1] \notin dirs.date

\* ------------------------------------------------------------------ C34
\* The bucket of path p lies before the bucket of now: the clock has left its
\* date and hour, and (C31) no later sweep lists it.
BucketHasPassed(p) ==
    \/ p[1] < strftime_date(now_utc(now))
    \/ /\ p[1] = strftime_date(now_utc(now))
       /\ p[2] < strftime_hour(now_utc(now))

\* C34: no one-time schedule is left behind by the sweeps. A schedule given
\* in UTC with an execute_at not before its creation, still stored when the
\* clock has left the hour of its bucket, has a dispatch on its way to claim
\* it; otherwise no sweep will list it again and it stays in the store for
\* ever.
C34_NoOneTimeLeftBehind ==
    \A p \in Readable(onetime_files) :
        LET s == load_schedule(onetime_files, p)
        IN  /\ s.execute_at[2] = None
            /\ s.execute_at[1] >= s.created_at[1]
            /\ BucketHasPassed(p)
            => \E d \in dispatches :
                  /\ d.schedule_id = s.id
                  /\ d.pc \in {"start", "claim"}

\* ------------------------------------------------------------------ C32
\* The schedules a store holds after the encryption key has been changed:
\* created at instant 0, of either kind, each sealed under the present or
\* under the previous key.
RotatedRecords(i) ==
    {[id |-> i, api_key |-> k, cron |-> c,
      created_at |-> isoformat(utcnow(0)), last_run |-> None] :
        k \in (IF i = 1 THEN {"k1"} ELSE Tenants), c \in CronInputs}
    \cup
    {[id |-> i, api_key |-> k, execute_at |-> isoformat(utcnow(t)),
      created_at |-> isoformat(utcnow(0))] :
        k \in (IF i = 1 THEN {"k1"} ELSE Tenants), t \in {0, TicksPerMin}}

IsOneTime(s) == "execute_at" \in DOMAIN s

RotatedPath(s) ==
    IF IsOneTime(s) THEN get_onetime_schedule_path(s.api_key, s.execute_at, s.id)
    ELSE get_recurring_schedule_path(s.api_key, s.id)

InitRotated ==
    /\ now = 0
    /\ swept = FALSE
    /\ result_files = EmptyMap
    /\ dispatches = {}
    /\ unswept = {}
    /\ calls = [on |-> FALSE, log |-> <<>>]
    /\ \E n \in 1..MaxSched :
          \E rec \in [1..n -> UNION {RotatedRecords(i) : i \in 1..n}],
             key \in [1..n -> {EncryptionKey, PreviousKey}] :
               /\ \A i \in 1..n : rec[i] \in RotatedRecords(i)
               /\ nextId = n + 1
               /\ recurring_files =
                     [p \in {RotatedPath(rec[i]) : i \in {j \in 1..n : ~IsOneTime(rec[j])}}
                        |-> encrypt_json(rec[p[2]], key[p[2]])]
               /\ onetime_files =
                     [p \in {RotatedPath(rec[i]) : i \in {j \in 1..n : IsOneTime(rec[j])}}
                        |-> encrypt_json(rec[p[4]], key[p[4]])]
               /\ dirs =
                     [rec  |-> {RotatedPath(rec[i])[1] :
                                   i \in {j \in 1..n : ~IsOneTime(rec[j])}},
                      date |-> {RotatedPath(rec[i])[1] :
                                   i \in {j \in 1..n : IsOneTime(rec[j])}},
                      hour |-> {<<RotatedPath(rec[i])[1], RotatedPath(rec[i])[2]>> :
                                   i \in {j \in 1..n : IsOneTime(rec[j])}},
                      user |-> {<<RotatedPath(rec[i])[1], RotatedPath(rec[i])[2],
                                  RotatedPath(rec[i])[3]>> :
                                   i \in {j \in 1..n : IsOneTime(rec[j])}},
                      res  |-> {}]

\* The scheduler alone on that store: sweeps and dispatches as time passes.
NextRotated ==
    \/ \E o \in Orders(list_all_recurring_schedules) : check_and_execute_schedules(o)
    \/ Tick
    \/ \E d \in dispatches : Load(d)
    \/ \E d \in dispatches, f \in BOOLEAN : ClaimOneTime(d, f)
    \/ \E d \in dispatches : StampLastRun(d)
    \/ \E d \in dispatches, f \in BOOLEAN : ClaimRecurring(d, f)
    \/ \E d \in dispatches, r \in SendResults : SendReturn(d, r)
    \/ \E d \in dispatches, f \in BOOLEAN : Terminate(d, f)

SpecRotated == InitRotated /\ [][NextRotated]_vars

\* The blobs of a tree that do not open under the present key.
Unreadable(files) ==
    {p \in DOMAIN files : decrypt_json_raises(files[p], EncryptionKey)}

\* The readable recurring records whose due-check raises (C7).
RaisingRecords ==
    {p \in DOMAIN recurring_files \ Unreadable(recurring_files) :
        is_recurring_schedule_due_raises(
            decrypt_json(recurring_files[p], EncryptionKey))}

\* C32: a sweep over a store that holds a record that does not open leaves
\* that record (and every other) as it is, spawns no dispatch for it, and,
\* unless the due-check of some readable record raises, runs to its end:
\* it spawns a dispatch for every readable recurring schedule that is due and
\* for every readable due one-time schedule of the current bucket, and runs
\* the cleanup.
C32_UnreadableRecordSkipped ==
    [][SweepStep
       /\ Unreadable(recurring_files) \cup Unreadable(onetime_files) # {}
       => /\ recurring_files' = recurring_files
          /\ onetime_files' = onetime_files
          /\ \A p \in Unreadable(recurring_files) :
                \A d \in Spawned : d.schedule_id # p[2]
          /\ \A p \in Unreadable(onetime_files) :
                \A d \in Spawned : d.schedule_id # p[4]
          /\ RaisingRecords = {} =>
                /\ \A p \in DOMAIN recurring_files \ Unreadable(recurring_files) :
                      LET s == decrypt_json(recurring_files[p], EncryptionKey)
                      IN  is_recurring_schedule_due(s, now_utc(now))
                              => \E d \in Spawned : d.schedule_id = s.id
                /\ \A p \in DOMAIN onetime_files \ Unreadable(onetime_files) :
                      LET s == decrypt_json(onetime_files[p], EncryptionKey)
                      IN  InCurrentBucket(p) /\ is_onetime_schedule_due(s, now_utc(now))
                              => \E d \in Spawned : d.schedule_id = s.id
                /\ dirs' = cleanup_empty_directories(dirs)]_vars

\* A sweep has run over a record that does not open and whose content would
\* be due: no dispatch exists for it, while the sweep has spawned one for
\* another schedule.
C32_Witness ==
    /\ swept
    /\ \E d \in dispatches : d.at = now /\ d.pc = "start"
    /\ \/ \E p \in Unreadable(recurring_files) :
             /\ is_recurring_schedule_due(recurring_files[p].json, now_utc(now))
             /\ \A d \in dispatches : d.schedule_id # p[2]
       \/ \E p \in Unreadable(onetime_files) :
             /\ InCurrentBucket(p)
             /\ is_onetime_schedule_due(onetime_files[p].json, now_utc(now))
             /\ \A d \in dispatches : d.schedule_id # p[4]

\* ------------------------------------------------------------------ C37
\* The recurring schedules of a deployment that has been running: created one
\* tick before instant 0 and not yet run, so that instant 0 is the first
\* boundary of either cron.
OrderedRecords(i) ==
    {[id |-> i, api_key |-> k, cron |-> c,
      created_at |-> isoformat(utcnow(0 - 1)), last_run |-> None] :
        k \in (IF i = 1 THEN {"k1"} ELSE Tenants), c \in {EveryMinute, Hourly}}

InitOrdered ==
    /\ now = 0
    /\ swept = FALSE
    /\ onetime_files = EmptyMap
    /\ result_files = EmptyMap
    /\ dispatches = {}
    /\ unswept = {}
    /\ calls = [on |-> FALSE, log |-> <<>>]
    /\ \E n \in 1..MaxSched :
          \E rec \in [1..n -> UNION {OrderedRecords(i) : i \in 1..n}] :
               /\ \A i \in 1..n : rec[i] \in OrderedRecords(i)
               /\ nextId = n + 1
               /\ recurring_files =
                     [p \in {get_recurring_schedule_path(rec[i].api_key, i) : i \in 1..n}
                        |-> encrypt_json(rec[p[2]], EncryptionKey)]
               /\ dirs = [rec  |-> {get_api_key_hash(rec[i].api_key) : i \in 1..n},
                          date |-> {}, hour |-> {}, user |-> {}, res |-> {}]

\* The hypothesis: every dispatch of a recurring schedule has written
\* last_run (or has ended) when the sweep lists.
EveryDispatchHasWritten ==
    \A d \in dispatches :
        d.schedule_type = "recurring" => d.pc \notin {"start", "claim", "save"}

\* The scheduler under that hypothesis.
NextOrdered ==
    \/ /\ EveryDispatchHasWritten
       /\ \E o \in Orders(list_all_recurring_schedules) : check_and_execute_schedules(o)
    \/ Tick
    \/ \E d \in dispatches : Load(d)
    \/ \E d \in dispatches : StampLastRun(d)
    \/ \E d \in dispatches, f \in BOOLEAN : ClaimRecurring(d, f)
    \/ \E d \in dispatches, r \in SendResults : SendReturn(d, r)
    \/ \E d \in dispatches, f \in BOOLEAN : Terminate(d, f)

SpecOrdered == InitOrdered /\ [][NextOrdered]_vars

\* C37: when every dispatch has written last_run before the next sweep lists,
\* a sweep spawns at most one dispatch for a recurring schedule, and for a
\* schedule whose stored last_run is t only at or after the first cron
\* boundary strictly after t; so between the sweeps of any two sends of a
\* stored schedule lies a boundary of its cron: one send per boundary at
\* most.
C37_OncePerCronBoundary ==
    /\ [][SweepStep =>
             \A s \in RecurringRecords :
                 /\ Cardinality({d \in Spawned : d.schedule_id = s.id}) <= 1
                 /\ (s.last_run # None /\ \E d \in Spawned : d.schedule_id = s.id)
                       => now >= FirstBoundaryAfter(s.cron, s.last_run[1])]_vars
    /\ [](\A s \in RecurringRecords :
             \A d1, d2 \in dispatches :
                 /\ d1.schedule_id = s.id /\ d2.schedule_id = s.id
                 /\ ReachedSend(d1) /\ ReachedSend(d2)
                 /\ d1.at < d2.at
                 => \E b \in (d1.at + 1)..d2.at : IsCronBoundary(s.cron, b))

\* An hourly schedule was sent by the sweep of the boundary 0; the sweep of
\* the next minute, with last_run written, found it not due; the sweep of the
\* next hour boundary sent it again.
C37_Witness ==
    \E s \in RecurringRecords :
        /\ s.cron = Hourly
        /\ s.last_run # None
        /\ now = TicksPerHour
        /\ \E d1, d2 \in dispatches :
              /\ d1.schedule_id = s.id /\ d1.at = 0 /\ d1.outcome = "sent-ok"
              /\ d2.schedule_id = s.id /\ d2.at = TicksPerHour /\ ReachedSend(d2)
        /\ \A d \in dispatches : d.schedule_id = s.id => d.at # TicksPerMin

====
